---- MODULE Spec2Model ----
(***************************************************************************)
(* Model of the event transport and shutdown handshake of src/main.rs:     *)
(* a CargoMsrvReporter sending Message values over an mpsc channel to the   *)
(* CargoMsrvWriter thread, which dispatches them through a MultiHandler and *)
(* acknowledges closure of the channel with one Disconnect token.           *)
(*                                                                         *)
(* Two execution contexts take steps: the producers (the Reporter and one   *)
(* optional clone of the forward Sender) and the Writer thread.  The Writer *)
(* is split at every child handler call so that producer steps interleave   *)
(* with dispatch exactly as two threads do.                                 *)
(***************************************************************************)
EXTENDS Integers, Sequences, FiniteSets, TLC

\* ---------------------------------------------------------------- bounds
\* Total number of send calls (by all producers) explored.
MaxSends == 3
\* Largest number of child handlers pushed into the MultiHandler.
MaxHandlers == 2

\* Number of report_event calls explored in the rendering scenario.
ScenarioLen == 4

\* ------------------------------------------------------- program values
\* indicatif::ProgressBar::new(10)
BarInitLen == 10

NoEvent == [from |-> "none", n |-> 0, kind |-> "none", text |-> "", max |-> 0, current |-> 0]

\* enum Message { Event(Event), CurrentStatus(String), Progression(Progression) }
\* `text`, `max`, `current` are unused fields of the variants that do not
\* carry them.  The payloads are ones main() sends.  The Reporter draws its
\* messages from ReporterMessage and the clone from CloneMessage; every
\* event also carries who sent it and the sender's count, so the payload is
\* never what tells two events apart.
ReporterMessage ==
    { [kind |-> "CurrentStatus", text |-> "chris!", max |-> 0, current |-> 0],
      [kind |-> "Progression", text |-> "", max |-> 10, current |-> 1] }
CloneMessage ==
    { [kind |-> "Event", text |-> "Installing", max |-> 0, current |-> 0] }

\* The messages of the rendering scenario: two statuses, a lifecycle event,
\* and progressions with current below, equal to and above max.
RenderMessage ==
    { [kind |-> "CurrentStatus", text |-> "a", max |-> 0, current |-> 0],
      [kind |-> "CurrentStatus", text |-> "b", max |-> 0, current |-> 0],
      [kind |-> "Event", text |-> "Installing", max |-> 0, current |-> 0],
      [kind |-> "Progression", text |-> "", max |-> 10, current |-> 1],
      [kind |-> "Progression", text |-> "", max |-> 10, current |-> 10],
      [kind |-> "Progression", text |-> "", max |-> 5, current |-> 7] }

\* The handles on the forward channel's send end: the Reporter's own Sender
\* and a clone of it (mpsc::Sender is Clone).
Producers == {"reporter", "clone"}

\* The EventHandler implementations a MultiHandler can hold.
HandlerKinds == {"json", "indicatif"}

VARIABLES
    handlers,      \* MultiHandler.handlers: the child handlers, in push order
    queue,         \* the forward channel's buffered messages
    senders,       \* the live Sender handles of the forward channel
    receiverAlive, \* the Writer thread still owns the forward Receiver
    ackChan,       \* Disconnect tokens buffered in the acknowledgement channel
    ackSenderAlive,\* the Writer thread still owns disconnect_sender
    ackRecvAlive,  \* the Reporter still owns disconnect_receiver
    rpc,           \* the Reporter: active, waiting (in recv of disconnect),
                   \*   returned, panicked, dropped
    result,        \* the value returned by the latest send of each producer
    wpc,           \* the Writer thread: recv, handle, finish, ack, done, panicked
    panicIn,       \* where the Writer thread panicked: none, handle, finish, ack
    cur,           \* the message being dispatched (NoEvent when none)
    idx,           \* the child the MultiHandler loop is at (after a panic in
                   \*   a handler call: the child whose call panicked)
    log,           \* per child: the events its handle() has returned for
    sink,          \* per child: the records a JsonHandler has written out
    bar,           \* per child: the (position, length) of an IndicatifHandler's bar
    finished,      \* per child: the number of finish() calls that returned
    sent,          \* history: every event accepted by the channel, in order
    received,      \* history: every event the Writer's recv() returned, in order
    nSends,        \* history: the number of send calls made, per producer
    acksSent       \* history: the number of tokens accepted by the ack channel

vars == << handlers, queue, senders, receiverAlive, ackChan, ackSenderAlive,
           ackRecvAlive, rpc, result, wpc, panicIn, cur, idx, log, sink, bar,
           finished, sent, received, nSends, acksSent >>

chanVars == << queue, senders, receiverAlive, sent, nSends, result >>
ackVars == << ackChan, ackSenderAlive, ackRecvAlive, acksSent >>
handlerVars == << log, sink, bar, finished >>

\* ---------------------------------------------------------------- helpers
RECURSIVE SeqsUpTo(_, _)
SeqsUpTo(S, n) ==
    IF n = 0 THEN { <<>> }
    ELSE LET shorter == SeqsUpTo(S, n - 1)
         IN  shorter \cup { Append(s, x) : s \in { t \in shorter : Len(t) = n - 1 }, x \in S }

NHandlers == Len(handlers)
Children == 1 .. NHandlers

TotalSends == nSends["reporter"] + nSends["clone"]

RECURSIVE Filter(_, _)
\* The subsequence of the events of s sent by producer p.
Filter(s, p) ==
    IF s = <<>> THEN <<>>
    ELSE IF Head(s).from = p THEN <<Head(s)>> \o Filter(Tail(s), p)
    ELSE Filter(Tail(s), p)

IsPrefix(s, t) == Len(s) <= Len(t) /\ SubSeq(t, 1, Len(s)) = s

\* IndicatifHandler::default(): ProgressBar::new(10), nothing printed, no
\* message (message = -1; message = k stands for the text "Event (k)").
NewBar == [position |-> 0, length |-> BarInitLen, message |-> -1, lines |-> <<>>, done |-> FALSE]

\* ------------------------------------------------------------------ Init
\* main(): both channels created, the Reporter and the Writer set up, the
\* Writer thread blocked in its first recv().  The hosting application
\* chooses the children of the MultiHandler and whether it keeps a clone of
\* the forward Sender.
Init ==
    /\ handlers \in SeqsUpTo(HandlerKinds, MaxHandlers)
    /\ queue = <<>>
    /\ senders \in { {"reporter"}, Producers }
    /\ receiverAlive = TRUE
    /\ ackChan = 0
    /\ ackSenderAlive = TRUE
    /\ ackRecvAlive = TRUE
    /\ rpc = "active"
    /\ result = [p \in Producers |-> "none"]
    /\ wpc = "recv"
    /\ panicIn = "none"
    /\ cur = NoEvent
    /\ idx = 0
    /\ log = [i \in 1 .. Len(handlers) |-> <<>>]
    /\ sink = [i \in 1 .. Len(handlers) |-> <<>>]
    /\ bar = [i \in 1 .. Len(handlers) |-> NewBar]
    /\ finished = [i \in 1 .. Len(handlers) |-> 0]
    /\ sent = <<>>
    /\ received = <<>>
    /\ nSends = [p \in Producers |-> 0]
    /\ acksSent = 0

\* ------------------------------------------------------- forward channel
\* The value is put at the head of the buffer.
EnqueueFront(q, e) == <<e>> \o q

\* mpsc::Sender::send on the unbounded channel: the value goes to the tail
\* of the buffer.
Enqueue(q, e) == Append(q, e)

\* A channel of capacity one that refuses a value when it is full.
SendAcceptedIfRoom == receiverAlive /\ Len(queue) < 1

\* mpsc::Sender::send succeeds exactly while the Receiver exists.
SendAccepted == receiverAlive

\* self.sender.send(event).map_err(|_| ()) by producer p.
Send(p, m) ==
    LET e == [from |-> p, n |-> nSends[p] + 1, kind |-> m.kind, text |-> m.text,
              max |-> m.max, current |-> m.current]
    IN  /\ nSends' = [nSends EXCEPT ![p] = @ + 1]
        /\ IF SendAccepted
           THEN /\ queue' = Enqueue(queue, e)
                /\ sent' = Append(sent, e)
                /\ result' = [result EXCEPT ![p] = "Ok"]
           ELSE /\ UNCHANGED << queue, sent >>
                /\ result' = [result EXCEPT ![p] = "Err"]

\* ---------------------------------------------------------------- Reporter
\* CargoMsrvReporter::report_event
report_event(m) ==
    /\ rpc = "active"
    /\ TotalSends < MaxSends
    /\ Send("reporter", m)
    /\ UNCHANGED << handlers, senders, receiverAlive, ackVars, rpc, wpc, panicIn,
                    cur, idx, handlerVars, received >>

\* CargoMsrvReporter::disconnect, first statement: drop(self.sender)
disconnect_drop ==
    /\ rpc = "active"
    /\ senders' = senders \ {"reporter"}
    /\ rpc' = "waiting"
    /\ UNCHANGED << handlers, queue, receiverAlive, ackVars, result, wpc, panicIn,
                    cur, idx, handlerVars, sent, received, nSends >>

\* A recv() that only ever returns a token, and waits for one for ever.
disconnect_recv_waits ==
    /\ rpc = "waiting"
    /\ ackChan > 0
    /\ ackChan' = ackChan - 1
    /\ rpc' = "returned"
    /\ ackRecvAlive' = FALSE
    /\ UNCHANGED << handlers, chanVars, ackSenderAlive, acksSent, wpc, panicIn,
                    cur, idx, handlerVars, received >>

\* CargoMsrvReporter::disconnect, second statement:
\* self.disconnect_receiver.recv().unwrap().  recv() blocks while the channel
\* is empty and its Sender exists, returns the token when there is one, and
\* fails (so that unwrap panics) when it is empty and the Sender is gone.
\* Either way `self` is consumed and disconnect_receiver dropped with it.
disconnect_recv ==
    /\ rpc = "waiting"
    /\ \/ /\ ackChan > 0
          /\ ackChan' = ackChan - 1
          /\ rpc' = "returned"
       \/ /\ ackChan = 0
          /\ ~ackSenderAlive
          /\ ackChan' = ackChan
          /\ rpc' = "panicked"
    /\ ackRecvAlive' = FALSE
    /\ UNCHANGED << handlers, chanVars, ackSenderAlive, acksSent, wpc, panicIn,
                    cur, idx, handlerVars, received >>

\* The Reporter goes out of scope without disconnect(): both of its channel
\* ends are dropped.
reporter_dropped ==
    /\ rpc = "active"
    /\ rpc' = "dropped"
    /\ senders' = senders \ {"reporter"}
    /\ ackRecvAlive' = FALSE
    /\ UNCHANGED << handlers, queue, receiverAlive, ackChan, ackSenderAlive, acksSent,
                    result, wpc, panicIn, cur, idx, handlerVars, sent, received, nSends >>

\* A send through the clone of the forward Sender.
clone_send(m) ==
    /\ "clone" \in senders
    /\ TotalSends < MaxSends
    /\ Send("clone", m)
    /\ UNCHANGED << handlers, senders, receiverAlive, ackVars, rpc, wpc, panicIn,
                    cur, idx, handlerVars, received >>

\* The clone of the forward Sender is dropped.
clone_dropped ==
    /\ "clone" \in senders
    /\ senders' = senders \ {"clone"}
    /\ UNCHANGED << handlers, queue, receiverAlive, ackVars, rpc, result, wpc, panicIn,
                    cur, idx, handlerVars, sent, received, nSends >>

\* ---------------------------------------------------------------- handlers
\* A bar that keeps its position within its length.
IndicatifHandleClamped(b, e) ==
    CASE e.kind = "Event" -> [b EXCEPT !.message = b.position]
      [] e.kind = "CurrentStatus" -> [b EXCEPT !.lines = Append(@, e.text)]
      [] e.kind = "Progression" ->
            [b EXCEPT !.length = e.max,
                      !.position = IF e.current <= e.max THEN e.current ELSE e.max]

\* serde_json::to_string(&event) of the derived Serialize of Message: the
\* variant's name, then its payload (for Progression the fields in their
\* declared order, max before current).
JsonRecord(e) ==
    CASE e.kind = "Event" -> << "Event", e.text >>
      [] e.kind = "CurrentStatus" -> << "CurrentStatus", e.text >>
      [] e.kind = "Progression" -> << "Progression", << "max", e.max >>, << "current", e.current >> >>

\* JsonHandler::handle on the lines written so far: one more line, the
\* record of the event, flushed at once.
JsonHandle(out, e) == Append(out, JsonRecord(e))

\* IndicatifHandler::handle on a bar b.
IndicatifHandle(b, e) ==
    CASE e.kind = "Event" -> [b EXCEPT !.message = b.position]
      [] e.kind = "CurrentStatus" -> [b EXCEPT !.lines = Append(@, e.text)]
      [] e.kind = "Progression" -> [b EXCEPT !.length = e.max, !.position = e.current]

\* IndicatifHandler::finish: ProgressBar::finish() moves the position to the
\* length and marks the bar done.
IndicatifFinish(b) == [b EXCEPT !.position = b.length, !.done = TRUE]

\* The children visited last to first.
ChildOrderReversed == [k \in Children |-> NHandlers + 1 - k]

\* Every visit goes to the first child.
ChildOrderStuck == [k \in Children |-> 1]

\* The order in which `for handler in &self.handlers` visits the children:
\* ChildOrder[k] is the k-th child visited.
ChildOrder == [k \in Children |-> k]

\* The loop stops one child early.
LoopDoneEarly(k) == k >= NHandlers

\* The loop is over when it has made k - 1 visits and there is no k-th child.
LoopDone(k) == k > NHandlers

\* ------------------------------------------------------------------ Writer
\* The closure of the Writer thread ends (by `break` or by unwinding): what
\* it captured (the forward Receiver with its buffer, disconnect_sender, the
\* handler) is dropped.
ThreadEnds ==
    /\ receiverAlive' = FALSE
    /\ ackSenderAlive' = FALSE
    /\ queue' = <<>>
    /\ cur' = NoEvent

\* Closure reported as soon as every Sender is dropped, buffered or not.
RecvDisconnectedUndrained == senders = {}

\* Closure reported once the Reporter's own Sender is dropped, clones or not.
RecvDisconnectedReporterOnly == queue = <<>> /\ "reporter" \notin senders

\* receiver.recv() fails: the buffer is empty and every Sender is dropped.
RecvDisconnected == queue = <<>> /\ senders = {}

\* receiver.recv() returns Ok(message); MultiHandler::handle starts its loop.
writer_recv ==
    /\ wpc = "recv"
    /\ queue # <<>>
    /\ queue' = Tail(queue)
    /\ received' = Append(received, Head(queue))
    /\ IF LoopDone(1)
       THEN /\ UNCHANGED << wpc, cur, idx >>
       ELSE /\ wpc' = "handle"
            /\ cur' = Head(queue)
            /\ idx' = 1
    /\ UNCHANGED << handlers, senders, receiverAlive, ackVars, rpc, result, panicIn,
                    handlerVars, sent, nSends >>

\* MultiHandler::handle: handler.handle(event.clone()) returns on the
\* idx-th child visited.  After the last one the Writer is back in recv().
writer_handle ==
    /\ wpc = "handle"
    /\ idx \in Children
    /\ LET c == ChildOrder[idx]
       IN  /\ log' = [log EXCEPT ![c] = Append(@, cur)]
           /\ bar' = IF handlers[c] = "indicatif"
                     THEN [bar EXCEPT ![c] = IndicatifHandle(@, cur)]
                     ELSE bar
           /\ sink' = IF handlers[c] = "json"
                      THEN [sink EXCEPT ![c] = JsonHandle(@, cur)]
                      ELSE sink
    /\ IF LoopDone(idx + 1)
       THEN /\ wpc' = "recv"
            /\ cur' = NoEvent
            /\ idx' = 0
       ELSE /\ idx' = idx + 1
            /\ UNCHANGED << wpc, cur >>
    /\ UNCHANGED << handlers, chanVars, ackVars, rpc, panicIn, finished, received >>

\* The Err arm without its handler.finish() call.
writer_closed_unfinished ==
    /\ wpc = "recv"
    /\ RecvDisconnected
    /\ wpc' = "ack"
    /\ idx' = 0
    /\ UNCHANGED << handlers, chanVars, ackVars, rpc, panicIn, cur, handlerVars, received >>

\* receiver.recv() returns Err: handler.finish() starts its loop.
writer_closed ==
    /\ wpc = "recv"
    /\ RecvDisconnected
    /\ IF LoopDone(1)
       THEN wpc' = "ack" /\ idx' = 0
       ELSE wpc' = "finish" /\ idx' = 1
    /\ UNCHANGED << handlers, chanVars, ackVars, rpc, panicIn, cur, handlerVars, received >>

\* MultiHandler::finish: handler.finish() returns on the idx-th child visited.
writer_finish ==
    /\ wpc = "finish"
    /\ idx \in Children
    /\ LET c == ChildOrder[idx]
       IN  /\ finished' = [finished EXCEPT ![c] = @ + 1]
           /\ bar' = IF handlers[c] = "indicatif"
                     THEN [bar EXCEPT ![c] = IndicatifFinish(@)]
                     ELSE bar
    /\ IF LoopDone(idx + 1)
       THEN wpc' = "ack" /\ idx' = 0
       ELSE idx' = idx + 1 /\ wpc' = wpc
    /\ UNCHANGED << handlers, chanVars, ackVars, rpc, panicIn, cur, log, sink, received >>

\* A child's handle() or finish() panics (JsonHandler::handle unwraps the
\* result of lock(); EventHandler is open to any implementation).  Nothing
\* in the thread's closure catches it: the thread unwinds.
writer_handler_panics ==
    /\ wpc \in {"handle", "finish"}
    /\ idx \in Children
    /\ panicIn' = wpc
    /\ wpc' = "panicked"
    /\ ThreadEnds
    /\ UNCHANGED << handlers, senders, sent, nSends, result, ackChan, ackRecvAlive,
                    acksSent, rpc, idx, handlerVars, received >>

\* The Err arm without its `break`: after the send the loop goes on.
writer_ack_loops ==
    /\ wpc = "ack"
    /\ ackRecvAlive
    /\ ackChan' = ackChan + 1
    /\ acksSent' = acksSent + 1
    /\ wpc' = "recv"
    /\ UNCHANGED << handlers, chanVars, ackSenderAlive, ackRecvAlive, rpc, panicIn,
                    cur, idx, handlerVars, received >>

\* The Err arm without its send: the loop breaks with no token sent.
writer_ack_unsent ==
    /\ wpc = "ack"
    /\ wpc' = "done"
    /\ ThreadEnds
    /\ UNCHANGED << handlers, senders, sent, nSends, result, ackChan, acksSent,
                    ackRecvAlive, rpc, panicIn, idx, handlerVars, received >>

\* The Err arm with the result of the send discarded instead of unwrapped.
writer_ack_ignored ==
    /\ wpc = "ack"
    /\ IF ackRecvAlive
       THEN /\ ackChan' = ackChan + 1
            /\ acksSent' = acksSent + 1
       ELSE UNCHANGED << ackChan, acksSent >>
    /\ wpc' = "done"
    /\ ThreadEnds
    /\ UNCHANGED << handlers, senders, sent, nSends, result, ackRecvAlive, rpc, panicIn,
                    idx, handlerVars, received >>

\* disconnect_sender.send(Disconnect).unwrap(); break;
\* The send fails, and unwrap panics, when disconnect_receiver is dropped.
writer_ack ==
    /\ wpc = "ack"
    /\ IF ackRecvAlive
       THEN /\ ackChan' = ackChan + 1
            /\ acksSent' = acksSent + 1
            /\ wpc' = "done"
            /\ UNCHANGED panicIn
       ELSE /\ wpc' = "panicked"
            /\ panicIn' = "ack"
            /\ UNCHANGED << ackChan, acksSent >>
    /\ ThreadEnds
    /\ UNCHANGED << handlers, senders, sent, nSends, result, ackRecvAlive, rpc, idx,
                    handlerVars, received >>

\* CargoMsrvReporter::report_event in the rendering scenario.
render_report(m) ==
    /\ rpc = "active"
    /\ nSends["reporter"] < ScenarioLen
    /\ Send("reporter", m)
    /\ UNCHANGED << handlers, senders, receiverAlive, ackVars, rpc, wpc, panicIn,
                    cur, idx, handlerVars, received >>

\* ----------------------------------------------------------- specification
ProducerNext ==
    \/ \E m \in ReporterMessage : report_event(m)
    \/ disconnect_drop
    \/ disconnect_recv
    \/ reporter_dropped
    \/ \E m \in CloneMessage : clone_send(m)
    \/ clone_dropped

WriterNext ==
    \/ writer_recv
    \/ writer_handle
    \/ writer_closed
    \/ writer_finish
    \/ writer_handler_panics
    \/ writer_ack

Next == ProducerNext \/ WriterNext

Spec == Init /\ [][Next]_vars

\* The Writer is a spawned OS thread and disconnect() a blocking call of a
\* running thread: a step of either that stays possible is eventually taken.
Fairness == WF_vars(WriterNext) /\ WF_vars(disconnect_recv)

FairSpec == Spec /\ Fairness

\* The rendering scenario: main()'s pipeline as it sets it up (one Sender,
\* a JsonHandler pushed first and an IndicatifHandler second), the Reporter
\* reporting any messages of RenderMessage and then disconnecting.
InitRender ==
    /\ Init
    /\ handlers = << "json", "indicatif" >>
    /\ senders = {"reporter"}

NextRender ==
    \/ \E m \in RenderMessage : render_report(m)
    \/ disconnect_drop
    \/ disconnect_recv
    \/ WriterNext

SpecRender == InitRender /\ [][NextRender]_vars

\* ------------------------------------------------------------------ claims
Returned == rpc = "returned"

\* What the events of s sent by producer p are when none is missing,
\* repeated or out of order: the p's 1st, 2nd, ... send.
InSendOrder(s, p) == \A k \in 1 .. Len(Filter(s, p)) : Filter(s, p)[k].n = k

\* C1: when disconnect() has returned, every child handler's handle() has
\* returned exactly once for each event sent, in the order sent (for the
\* Reporter: its 1st, 2nd, ... report_event call, all of them), and nothing
\* is left in the forward channel or in dispatch.
C1_AllHandledInOrder ==
    Returned =>
        /\ \A c \in Children :
              /\ log[c] = sent
              /\ InSendOrder(log[c], "reporter")
              /\ Len(Filter(log[c], "reporter")) = nSends["reporter"]
        /\ received = sent
        /\ queue = <<>>
        /\ cur = NoEvent
        /\ wpc = "done"

C1_Witness ==
    /\ Returned
    /\ NHandlers = 2
    /\ senders = {}
    /\ nSends["reporter"] = 3
    /\ sent[1].kind # sent[2].kind

\* C2: when disconnect() has returned, finish() has been called and has
\* returned on every child handler; the token is never in the
\* acknowledgement channel before that.
C2_FinishedBeforeReturn ==
    (Returned \/ acksSent > 0) => \A c \in Children : finished[c] = 1

C2_Witness ==
    /\ Returned
    /\ NHandlers = 2
    /\ \A c \in Children : finished[c] = 1
    /\ Len(sent) > 0

\* C3: a handle() or finish() call that fails by panicking does not end the
\* Writer thread: after such a failure the Writer is still running (it
\* still holds disconnect_sender) or has sent the acknowledgement.
C3_HandlerPanicContained ==
    panicIn \in {"handle", "finish"} => (ackSenderAlive \/ acksSent = 1)

\* C4: in a run where no handler call panics, once disconnect() is blocked
\* in recv() with no other Sender alive, eventually every event sent has
\* been handled by every child, every child is finished, the token has been
\* sent and disconnect() has returned.
C4_DrainsAndReturns ==
    [](panicIn = "none") =>
        ((rpc = "waiting" /\ senders = {}) ~>
            (/\ Returned
             /\ \A c \in Children : log[c] = sent /\ finished[c] = 1
             /\ acksSent = 1))

C4_Witness ==
    /\ rpc = "waiting"
    /\ senders = {}
    /\ wpc = "handle"
    /\ Len(received) = 2
    /\ Len(queue) = 1
    /\ NHandlers = 2

\* C6: a child pushed later never has handled an event that a child pushed
\* earlier has not yet handled: its handled events are always a prefix of
\* the earlier child's.
C6_FanOutOrder ==
    \A a, b \in Children : a < b => IsPrefix(log[b], log[a])

C6_Witness ==
    /\ NHandlers = 2
    /\ Len(log[1]) = 2
    /\ Len(log[2]) = 1
    /\ wpc = "handle"

C8_NoHandlersReturns ==
    (NHandlers = 0 /\ rpc = "waiting" /\ senders = {}) ~>
        (Returned /\ received = sent /\ queue = <<>>)

C8_Witness ==
    /\ NHandlers = 0
    /\ Returned
    /\ Len(sent) = 3
    /\ received = sent

\* C9: what the Writer has received holds each producer's events in that
\* producer's send order, without gap or repetition, and once the Writer
\* has left its loop it has received every event of every producer.
C9_FifoPerSender ==
    /\ \A p \in Producers :
          /\ InSendOrder(received, p)
          /\ Len(Filter(received, p)) <= nSends[p]
    /\ wpc = "done" =>
          \A p \in Producers : Len(Filter(received, p)) = nSends[p]

C9_Witness ==
    /\ wpc = "done"
    /\ Len(received) = 3
    /\ received[1].from = "reporter"
    /\ received[2].from = "clone"
    /\ received[3].from = "reporter"

\* C10: a send is always possible for a live Sender (whatever the queue
\* holds); while the Writer holds the Receiver it returns Ok and puts the
\* event at the tail of the queue, and otherwise it returns Err and queues
\* nothing.
SendStep(p) == nSends'[p] = nSends[p] + 1

C10_SendEffect(p) ==
    IF receiverAlive
    THEN /\ result'[p] = "Ok"
         /\ Len(queue') = Len(queue) + 1
         /\ SubSeq(queue', 1, Len(queue)) = queue
         /\ queue'[Len(queue')].from = p
         /\ queue'[Len(queue')].n = nSends'[p]
    ELSE /\ result'[p] = "Err"
         /\ queue' = queue

C10_SendNeverBlocks ==
    /\ [](TotalSends < MaxSends =>
            /\ rpc = "active" => ENABLED (\E m \in ReporterMessage : report_event(m))
            /\ "clone" \in senders => ENABLED (\E m \in CloneMessage : clone_send(m)))
    /\ [][\A p \in Producers : SendStep(p) => C10_SendEffect(p)]_vars

\* Both outcomes have occurred: two sends accepted, then one refused after
\* the Writer thread ended.
C10_Witness ==
    /\ result["reporter"] = "Ok"
    /\ Len(sent) = 2
    /\ result["clone"] = "Err"
    /\ ~receiverAlive

\* C11: after a child's handle() has failed for an event, every other child
\* is still served: the Writer is still running, or the other child has
\* handled every event received and has been finished.
C11_SiblingsServed ==
    panicIn = "handle" =>
        \A c \in Children \ {ChildOrder[idx]} :
            ackSenderAlive \/ (log[c] = received /\ finished[c] = 1)

\* C12: in a run where no handler call panics, once the Reporter has been
\* dropped without disconnect() and no other Sender is alive, the Writer
\* eventually ends by the panic of the failed acknowledgement send, with
\* every event sent handled by every child, every child finished and no
\* token sent; it is never left blocked and never ends as if acknowledged.
C12_DroppedReporterPanics ==
    [](panicIn \notin {"handle", "finish"}) =>
        ((rpc = "dropped" /\ senders = {}) ~>
            (/\ wpc = "panicked"
             /\ panicIn = "ack"
             /\ \A c \in Children : log[c] = sent /\ finished[c] = 1
             /\ acksSent = 0))

C12_Witness ==
    /\ rpc = "dropped"
    /\ wpc = "panicked"
    /\ panicIn = "ack"
    /\ NHandlers = 2
    /\ Len(sent) = 3
    /\ \A c \in Children : log[c] = sent /\ finished[c] = 1

\* The Writer's control state: Running while it is in recv() or in the Ok
\* arm, Finalizing while it is in the Err arm, Terminated once its thread
\* has ended.
WriterState ==
    CASE wpc \in {"recv", "handle"} -> "Running"
      [] wpc \in {"finish", "ack"} -> "Finalizing"
      [] wpc \in {"done", "panicked"} -> "Terminated"

\* C13: the Writer's control state changes only from Running to Finalizing,
\* and then only on a recv() that finds the buffer empty and every Sender
\* dropped, and from Finalizing to Terminated; once Terminated the Writer
\* receives nothing and calls no handler.
C13_WriterStateMachine ==
    [][/\ WriterState' # WriterState =>
            \/ /\ WriterState = "Running"
               /\ WriterState' = "Finalizing"
               /\ RecvDisconnected
            \/ /\ WriterState = "Finalizing"
               /\ WriterState' = "Terminated"
       /\ WriterState = "Terminated" =>
            UNCHANGED << wpc, received, handlerVars, acksSent >>]_vars

\* C14: the Writer takes the next event from the channel only when every
\* child's handle() has returned for every event taken before; a step
\* completes at most one handle() call, and that call is for the event taken
\* last; so no child is ever more than that one event ahead of another.
C14_SerializedDispatch ==
    /\ [](\A c, d \in Children :
            /\ IsPrefix(log[c], received)
            /\ Len(log[c]) - Len(log[d]) <= 1)
    /\ [][/\ received' # received => \A c \in Children : log[c] = received
          /\ \A c \in Children :
               log'[c] # log[c] =>
                   /\ log'[c] = Append(log[c], received[Len(received)])
                   /\ \A d \in Children \ {c} : log'[d] = log[d]]_vars

C14_Witness ==
    /\ NHandlers = 2
    /\ wpc = "handle"
    /\ idx = 2
    /\ Len(received) = 2
    /\ Len(queue) = 1
    /\ Len(log[1]) = 2
    /\ Len(log[2]) = 1

\* C15: finish() returns at most once on each child, on a child pushed later
\* only after it has on every child pushed earlier, and on every child once
\* MultiHandler::finish is over.
C15_FinishInOrder ==
    /\ \A c \in Children : finished[c] <= 1
    /\ \A a, b \in Children : (a < b /\ finished[b] = 1) => finished[a] = 1
    /\ (wpc \in {"ack", "done"} \/ panicIn = "ack") => \A c \in Children : finished[c] = 1

C15_Witness ==
    /\ NHandlers = 2
    /\ wpc = "finish"
    /\ finished[1] = 1
    /\ finished[2] = 0

\* C17: finish() returns at most once on each child; a child finished
\* handles no further event; and once the token has been sent no handle()
\* or finish() call is made.
C17_NothingAfterFinish ==
    /\ [](\A c \in Children : finished[c] <= 1)
    /\ [][/\ \A c \in Children : finished[c] >= 1 => log'[c] = log[c]
          /\ acksSent >= 1 => UNCHANGED << log, sink, bar, finished >>]_vars

C17_Witness ==
    /\ NHandlers = 2
    /\ acksSent = 1
    /\ Returned
    /\ \A c \in Children : finished[c] = 1 /\ Len(log[c]) = 3

\* C18: while the clone of the forward Sender is alive the Writer does not
\* observe closure: it is not finalizing, has sent no token, and
\* disconnect() has not returned and, unless the Writer thread has
\* panicked, cannot take a step; and a child is finished, and disconnect()
\* returns, only when every event sent, the clone's included, has been
\* handled by every child.
C18_CloneKeepsChannelOpen ==
    /\ "clone" \in senders =>
          /\ wpc \notin {"finish", "ack", "done"}
          /\ acksSent = 0
          /\ ~Returned
          /\ (rpc = "waiting" /\ wpc # "panicked") => ~ENABLED disconnect_recv
    /\ \A c \in Children :
          (finished[c] >= 1 \/ Returned) =>
              /\ log[c] = sent
              /\ Len(Filter(log[c], "clone")) = nSends["clone"]

C18_Witness ==
    /\ rpc = "waiting"
    /\ "clone" \in senders
    /\ wpc = "recv"
    /\ queue = <<>>
    /\ NHandlers = 2
    /\ Len(Filter(log[2], "clone")) = 2

\* C19: disconnect() panics only when the Writer thread has ended by a
\* panic without sending the token; once the Writer thread has ended,
\* a blocked disconnect() can take its step and eventually ends, by that
\* panic if the Writer panicked and by returning the token otherwise.
C19_DisconnectNeverHangs ==
    /\ [](rpc = "panicked" => (wpc = "panicked" /\ acksSent = 0))
    /\ []((rpc = "waiting" /\ ~ackSenderAlive) => ENABLED disconnect_recv)
    /\ (rpc = "waiting" /\ wpc = "panicked") ~> rpc = "panicked"
    /\ (rpc = "waiting" /\ wpc = "done") ~> Returned

C19_Witness ==
    /\ rpc = "panicked"
    /\ wpc = "panicked"
    /\ panicIn = "finish"
    /\ NHandlers = 2
    /\ Len(sent) = 3

RECURSIVE LastProgression(_)
\* The <<current, max>> of the last Progression event of s; what a new bar
\* shows when s has none.
LastProgression(s) ==
    IF s = <<>> THEN << NewBar.position, NewBar.length >>
    ELSE IF s[Len(s)].kind = "Progression" THEN << s[Len(s)].current, s[Len(s)].max >>
    ELSE LastProgression(SubSeq(s, 1, Len(s) - 1))

\* The payload of an event, without who sent it and when.
Payload(e) == [kind |-> e.kind, text |-> e.text, max |-> e.max, current |-> e.current]

\* Status("a"), Progress{1,10}, Status("b"), Progress{10,10}
Scenario ==
    << [kind |-> "CurrentStatus", text |-> "a", max |-> 0, current |-> 0],
       [kind |-> "Progression", text |-> "", max |-> 10, current |-> 1],
       [kind |-> "CurrentStatus", text |-> "b", max |-> 0, current |-> 0],
       [kind |-> "Progression", text |-> "", max |-> 10, current |-> 10] >>

ScenarioSent ==
    /\ Len(sent) = Len(Scenario)
    /\ \A k \in 1 .. Len(sent) : Payload(sent[k]) = Scenario[k]

\* C16: the bar of an IndicatifHandler that has not been finished shows the
\* current and max of the last Progression event it has handled (those of a
\* new bar when it has handled none), whether or not current <= max, and a
\* finished one still has that max as its length; when disconnect() has
\* returned after Status("a"), Progress{1,10}, Status("b"), Progress{10,10}
\* the bar is at position 10 of length 10 and the JsonHandler has written
\* the four records of these events, in this order.
C16_BarFollowsProgression ==
    /\ \A c \in Children :
          handlers[c] = "indicatif" =>
              /\ ~bar[c].done => << bar[c].position, bar[c].length >> = LastProgression(log[c])
              /\ bar[c].length = LastProgression(log[c])[2]
    /\ (Returned /\ ScenarioSent) =>
          /\ bar[2].position = 10
          /\ bar[2].length = 10
          /\ sink[1] = << << "CurrentStatus", "a" >>,
                          << "Progression", << "max", 10 >>, << "current", 1 >> >>,
                          << "CurrentStatus", "b" >>,
                          << "Progression", << "max", 10 >>, << "current", 10 >> >> >>

C16_Witness ==
    /\ Returned
    /\ ScenarioSent
    /\ bar[2].position = 10
    /\ bar[2].length = 10
    /\ Len(sink[1]) = 4

====
